---- MODULE Spec2Model ----
(***************************************************************************)
(* Model of validate.js: a registry of validation predicates (validators)  *)
(* and the aggregator Validator.validate(input, options, returnSpecifics). *)
(*                                                                         *)
(* JavaScript values are records [t, s, n]: t is the type tag, s a         *)
(* sequence of one-character strings (a string's content, an array's       *)
(* joined text, a RegExp object's name), n a number (a number's value, a   *)
(* boolean as 0/1, the number of own keys of a mapping, an array's         *)
(* length).  Strings are 0-indexed in the source and 1-indexed here.       *)
(***************************************************************************)
EXTENDS Integers, Sequences, FiniteSets, TLC

\* ------------------------------------------------------------------------
\* Bounds of the model
\* ------------------------------------------------------------------------
MaxLen == 2       \* longest enumerated input string over Alphabet
MaxBound == 2     \* largest min / max argument of the length rules
MaxRules == 2     \* most rules in one options mapping (aggregator runs)

\* ------------------------------------------------------------------------
\* JavaScript values
\* ------------------------------------------------------------------------
Undefined == [t |-> "undefined", s |-> <<>>, n |-> 0]
Null == [t |-> "null", s |-> <<>>, n |-> 0]
Bool(b) == [t |-> "boolean", s |-> <<>>, n |-> IF b THEN 1 ELSE 0]
Num(k) == [t |-> "number", s |-> <<>>, n |-> k]
NaN == [t |-> "number", s |-> <<"NaN">>, n |-> 0]
Infinity == [t |-> "number", s |-> <<"Infinity">>, n |-> 0]
Str(cs) == [t |-> "string", s |-> cs, n |-> 0]
\* a plain mapping with k own enumerable keys
Obj(k) == [t |-> "object", s |-> <<>>, n |-> k]
\* an array of k elements whose join(",") text is cs
Arr(cs, k) == [t |-> "array", s |-> cs, n |-> k]
\* a RegExp object, identified by the name of its pattern
RegExpObj(name) == [t |-> "regexp", s |-> <<name>>, n |-> 0]

\* the typeof operator
TypeOf(v) ==
  CASE v.t = "undefined" -> "undefined"
    [] v.t = "boolean" -> "boolean"
    [] v.t = "number" -> "number"
    [] v.t = "string" -> "string"
    [] OTHER -> "object"      \* null, mappings, arrays, RegExp objects

\* ToBoolean: the truthiness used by !x and x && y
ToBoolean(v) ==
  CASE v.t = "undefined" -> FALSE
    [] v.t = "null" -> FALSE
    [] v.t = "boolean" -> v.n = 1
    [] v.t = "number" -> v.s # <<"NaN">> /\ (v.s # <<>> \/ v.n # 0)
    [] v.t = "string" -> v.s # <<>>
    [] OTHER -> TRUE

\* a === b
StrictEquals(a, b) ==
  /\ a.t = b.t
  /\ CASE a.t \in {"undefined", "null"} -> TRUE
       [] a.t = "number" -> a.s # <<"NaN">> /\ a = b
       [] a.t \in {"boolean", "string"} -> a = b
       [] OTHER -> FALSE      \* two distinct objects are never identical

\* ------------------------------------------------------------------------
\* Characters
\* ------------------------------------------------------------------------
LowerSeq == <<"a","b","c","d","e","f","g","h","i","j","k","l","m",
              "n","o","p","q","r","s","t","u","v","w","x","y","z">>
UpperSeq == <<"A","B","C","D","E","F","G","H","I","J","K","L","M",
              "N","O","P","Q","R","S","T","U","V","W","X","Y","Z">>
Lower == {LowerSeq[i] : i \in 1..26}
Upper == {UpperSeq[i] : i \in 1..26}
Digit == {"0","1","2","3","4","5","6","7","8","9"}
HexLetter == {"a","b","c","d","e","f","A","B","C","D","E","F"}
WhiteSpace == {" ", "\t", "\n", "\r"}

\* Canonicalize of the ignoreCase flag: the upper-case form of a character
ToUpper(c) ==
  IF c \in Lower THEN UpperSeq[CHOOSE i \in 1..26 : LowerSeq[i] = c] ELSE c

\* Let(e, F) is F(e) with e evaluated once
Let(e, F(_)) == CHOOSE r \in {F(x) : x \in {e}} : TRUE

\* The sequences of ss one after the other, every element kept where it
\* comes first; no sequence of ss is longer than width and none holds -1
MergeAll(ss, width) ==
  Let(ss, LAMBDA v :
    Let([p \in 1..(Len(v) * width) |->
           IF ((p - 1) % width) + 1 <= Len(v[((p - 1) \div width) + 1])
           THEN v[((p - 1) \div width) + 1][((p - 1) % width) + 1] ELSE -1],
        LAMBDA slot :
          SelectSeq([p \in 1..Len(slot) |->
                       IF \A q \in 1..(p - 1) : slot[q] # slot[p]
                       THEN slot[p] ELSE -1],
                    LAMBDA x : x # -1)))

\* ------------------------------------------------------------------------
\* Regular expressions.  A pattern is a tree:
\*   <<"cls", S>>            one character of the class S
\*   <<"any">>               .  (any character but a line terminator)
\*   <<"bol">>               ^  (no multiline flag in this program)
\*   <<"cat", <<n1, ...>>>>  concatenation
\*   <<"alt", <<n1, ...>>>>  alternation, leftmost alternative first
\*   <<"rep", n, min, max>>  greedy repetition, max = -1 for no upper limit
\* Ends(node, ic, str, i) lists, in the backtracking order of the
\* ECMAScript matcher, the end indexes of the matches of node that start at
\* index i (0-based) of str; ic is the ignoreCase flag.  What follows a
\* match depends on its end index only (the patterns of this program have
\* no backreferences), so a repeated end index is dropped.
\* ------------------------------------------------------------------------
RECURSIVE Ends(_, _, _, _), CatEnds(_, _, _, _, _), RepEnds(_, _, _, _, _, _, _)

ClassMatches(S, ic, c) ==
  IF ic THEN ToUpper(c) \in {ToUpper(x) : x \in S} ELSE c \in S

\* the alternatives in turn, the leftmost first
AltEnds(nodes, ic, str, i) ==
  MergeAll([k \in 1..Len(nodes) |-> Ends(nodes[k], ic, str, i)], Len(str) + 1)

Ends(node, ic, str, i) ==
  CASE node[1] = "cls" ->
         IF i < Len(str) /\ ClassMatches(node[2], ic, str[i + 1])
         THEN <<i + 1>> ELSE <<>>
    [] node[1] = "any" ->
         IF i < Len(str) /\ str[i + 1] # "\n" THEN <<i + 1>> ELSE <<>>
    [] node[1] = "bol" -> IF i = 0 THEN <<i>> ELSE <<>>
    [] node[1] = "cat" -> CatEnds(node[2], 1, ic, str, i)
    [] node[1] = "alt" -> AltEnds(node[2], ic, str, i)
    [] node[1] = "rep" -> RepEnds(node[2], node[3], node[4], ic, str, i, 0)

\* the nodes k.. of a concatenation, from index i: the rest of the
\* concatenation is tried from each end of node k in turn
CatEnds(nodes, k, ic, str, i) ==
  IF k > Len(nodes) THEN <<i>>
  ELSE Let(Ends(nodes[k], ic, str, i),
           LAMBDA js : MergeAll([n \in 1..Len(js) |->
                                   CatEnds(nodes, k + 1, ic, str, js[n])],
                                Len(str) + 1))

\* RepeatMatcher: after count iterations, at index i.  Greedy: one more
\* iteration is tried (from each of its ends in turn) before leaving the
\* loop; once min is reached an iteration that matched the empty string is
\* rejected.
RepEnds(sub, min, max, ic, str, i, count) ==
  IF max # -1 /\ count >= max THEN <<i>>
  ELSE Let(SelectSeq(Ends(sub, ic, str, i), LAMBDA j : j > i \/ count < min),
           LAMBDA js : MergeAll([n \in 1..(Len(js) + 1) |->
                                   IF n <= Len(js)
                                   THEN RepEnds(sub, min, max, ic, str, js[n], count + 1)
                                   ELSE IF count >= min THEN <<i>> ELSE <<>>],
                                Len(str) + 1))

\* pattern text of literal characters
Lit(cs) == <<"cat", [k \in 1..Len(cs) |-> <<"cls", {cs[k]}>>]>>

\* new RegExp(text) for a pattern text whose only metacharacter is "."
RegExpFromString(cs) ==
  [ast |-> <<"cat", [k \in 1..Len(cs) |->
                       IF cs[k] = "." THEN <<"any">> ELSE <<"cls", {cs[k]}>>]>>,
   global |-> FALSE, ignoreCase |-> FALSE]

\* ------------------------------------------------------------------------
\* The constants table of the module
\* ------------------------------------------------------------------------
MAX_SHORT_TEXT_LENGTH == 128
MAX_TEXTAREA_LENGTH == 20000

AlNum == Lower \cup Upper \cup Digit

\* /^([a-zA-Z0-9_\-\.\+])+\@(([a-zA-Z0-9\-])+\.)+([a-zA-Z0-9]{2,5})/i
EMAIL_REGEX ==
  [ast |-> <<"cat", <<
       <<"bol">>,
       <<"rep", <<"cls", AlNum \cup {"_", "-", ".", "+"}>>, 1, -1>>,
       <<"cls", {"@"}>>,
       <<"rep", <<"cat", << <<"rep", <<"cls", AlNum \cup {"-"}>>, 1, -1>>,
                            <<"cls", {"."}>> >> >>, 1, -1>>,
       <<"rep", <<"cls", AlNum>>, 2, 5>> >> >>,
   global |-> FALSE, ignoreCase |-> TRUE]

UrlQueryClass == Lower \cup Digit \cup {"+", "_", "-", ".", "%", "=", "&", "a", "m", "p", ";"}
UrlPathClass == Lower \cup Digit \cup {"_", "-", ".", "~", "%", "?", "&", "="}
UrlFileClass == Lower \cup Digit \cup {"_", "-", "."}
\* [a-zA-Z0-9!$&'()*+.=-_~:@/?] : "=-_" is the range from "=" to "_"
UrlFragmentClass ==
  AlNum \cup {"!", "$", "&", "'", "(", ")", "*", "+", "."}
        \cup ({"=", ">", "?", "@", "[", "\\", "]", "^", "_"} \cup Upper)
        \cup {"~", ":", "@", "/", "?"}
UrlTlds == << <<"a","e","r","o">>, <<"a","r","p","a">>, <<"b","i","z">>,
              <<"c","o","m">>, <<"c","o","o","p">>, <<"e","d","u">>,
              <<"g","o","v">>, <<"i","n","f","o">>, <<"i","n","t">>,
              <<"j","o","b","s">>, <<"m","i","l">>,
              <<"m","u","s","e","u","m">>, <<"n","a","m","e">>,
              <<"n","a","t","o">>, <<"n","e","t">>, <<"o","r","g">>,
              <<"p","r","o">>, <<"t","r","a","v","e","l">>,
              <<"l","o","c","a","l">>,
              <<"i","n","t","e","r","n","a","l">> >>
UrlQuery == <<"cat", << <<"cls", {"?"}>>, <<"rep", <<"cls", UrlQueryClass>>, 0, -1>> >> >>

\* /(([a-z]+:\/\/)?(([a-z0-9\-]+\.)+([a-z]{2,}|aero|...|internal))(:[0-9]{1,5})?
\*   (\?[a-z0-9+_\-\.%=&amp;]*)?(\/[a-z0-9_\-\.~%\?\&\=]+)*
\*   (\/([a-z0-9_\-\.]*)(\?[a-z0-9+_\-\.%=&amp;]*)?)?(#[a-zA-Z0-9!$&'()*+.=-_~:@/?]*)?)/gi
URL_REGEX ==
  [ast |-> <<"cat", <<
       <<"rep", <<"cat", << <<"rep", <<"cls", Lower>>, 1, -1>>,
                            Lit(<<":", "/", "/">>) >> >>, 0, 1>>,
       <<"rep", <<"cat", << <<"rep", <<"cls", Lower \cup Digit \cup {"-"}>>, 1, -1>>,
                            <<"cls", {"."}>> >> >>, 1, -1>>,
       <<"alt", << <<"rep", <<"cls", Lower>>, 2, -1>> >>
                   \o [k \in 1..Len(UrlTlds) |-> Lit(UrlTlds[k])]>>,
       <<"rep", <<"cat", << <<"cls", {":"}>>, <<"rep", <<"cls", Digit>>, 1, 5>> >> >>, 0, 1>>,
       <<"rep", UrlQuery, 0, 1>>,
       <<"rep", <<"cat", << <<"cls", {"/"}>>,
                            <<"rep", <<"cls", UrlPathClass>>, 1, -1>> >> >>, 0, -1>>,
       <<"rep", <<"cat", << <<"cls", {"/"}>>,
                            <<"rep", <<"cls", UrlFileClass>>, 0, -1>>,
                            <<"rep", UrlQuery, 0, 1>> >> >>, 0, 1>>,
       <<"rep", <<"cat", << <<"cls", {"#"}>>,
                            <<"rep", <<"cls", UrlFragmentClass>>, 0, -1>> >> >>, 0, 1>> >> >>,
   global |-> TRUE, ignoreCase |-> TRUE]

\* ------------------------------------------------------------------------
\* Built-ins of the language used by the predicates
\* ------------------------------------------------------------------------
DigitSeq == <<"0","1","2","3","4","5","6","7","8","9">>
RECURSIVE DigitsOf(_)
DigitsOf(k) ==
  IF k < 10 THEN <<DigitSeq[k + 1]>>
  ELSE DigitsOf(k \div 10) \o <<DigitSeq[(k % 10) + 1]>>

\* String(v)
ToStringChars(v) ==
  CASE v.t = "undefined" -> <<"u","n","d","e","f","i","n","e","d">>
    [] v.t = "null" -> <<"n","u","l","l">>
    [] v.t = "boolean" -> IF v.n = 1 THEN <<"t","r","u","e">>
                          ELSE <<"f","a","l","s","e">>
    [] v.t = "number" ->
         IF v.s = <<"NaN">> THEN <<"N","a","N">>
         ELSE IF v.s = <<"Infinity">> THEN <<"I","n","f","i","n","i","t","y">>
         ELSE IF v.n < 0 THEN <<"-">> \o DigitsOf(-v.n) ELSE DigitsOf(v.n)
    [] v.t = "object" -> <<"[","o","b","j","e","c","t"," ","O","b","j","e","c","t","]">>
    [] OTHER -> v.s          \* a string; an array's join(",")

RECURSIVE TrimLeft(_)
TrimLeft(cs) ==
  IF cs # <<>> /\ Head(cs) \in WhiteSpace THEN TrimLeft(Tail(cs)) ELSE cs
RECURSIVE TrimRight(_)
TrimRight(cs) ==
  IF cs # <<>> /\ cs[Len(cs)] \in WhiteSpace
  THEN TrimRight(SubSeq(cs, 1, Len(cs) - 1)) ELSE cs

\* the grammar of numeric text: StrUnsignedDecimalLiteral without Infinity
ExponentPart ==
  <<"cat", << <<"cls", {"e", "E"}>>, <<"rep", <<"cls", {"+", "-"}>>, 0, 1>>,
              <<"rep", <<"cls", Digit>>, 1, -1>> >> >>
FiniteLiteral ==
  <<"alt", <<
     <<"cat", << <<"rep", <<"cls", Digit>>, 1, -1>>,
                 <<"rep", <<"cat", << <<"cls", {"."}>>,
                                      <<"rep", <<"cls", Digit>>, 0, -1>> >> >>, 0, 1>>,
                 <<"rep", ExponentPart, 0, 1>> >> >>,
     <<"cat", << <<"cls", {"."}>>, <<"rep", <<"cls", Digit>>, 1, -1>>,
                 <<"rep", ExponentPart, 0, 1>> >> >> >> >>
Sign == <<"rep", <<"cls", {"+", "-"}>>, 0, 1>>
SignedFiniteLiteral == <<"cat", <<Sign, FiniteLiteral>> >>
\* StrDecimalLiteral
DecimalLiteral ==
  <<"cat", <<Sign, <<"alt", <<Lit(<<"I","n","f","i","n","i","t","y">>),
                              FiniteLiteral>> >> >> >>
HexLiteral ==
  <<"cat", << <<"cls", {"0"}>>, <<"cls", {"x", "X"}>>,
              <<"rep", <<"cls", Digit \cup HexLetter>>, 1, -1>> >> >>

\* node matches the whole of cs
Whole(node, cs) ==
  \E es \in {Ends(node, FALSE, cs, 0)} : \E k \in 1..Len(es) : es[k] = Len(cs)

\* isNaN(parseFloat(v)): parseFloat reads the longest numeric prefix of the
\* text of v after its leading white space
ParseFloatIsNaN(v) ==
  \E txt \in {TrimLeft(ToStringChars(v))} : Ends(DecimalLiteral, FALSE, txt, 0) = <<>>

\* isFinite(v): ToNumber(v) is neither NaN nor an infinity
StringIsFinite(cs) ==
  \E txt \in {TrimRight(TrimLeft(cs))} :
     \/ txt = <<>>                                    \* Number("") is 0
     \/ Whole(HexLiteral, txt)
     \/ Whole(SignedFiniteLiteral, txt)
IsFinite(v) ==
  CASE v.t = "undefined" -> FALSE
    [] v.t \in {"null", "boolean"} -> TRUE
    [] v.t = "number" -> v.s = <<>>
    [] OTHER -> StringIsFinite(ToStringChars(v))   \* ToPrimitive, then text

\* x < y for a length x and a number value y
LessThan(x, y) ==
  /\ y.t = "number"
  /\ y.s # <<"NaN">>
  /\ (y.s = <<"Infinity">> \/ x < y.n)
GreaterThan(x, y) ==
  /\ y.t = "number"
  /\ y.s = <<>>
  /\ x > y.n

\* _.isEmpty(obj) of underscore
IsEmpty(v) ==
  CASE v.t = "null" -> TRUE
    [] v.t = "array" -> v.n = 0          \* obj.length === 0
    [] v.t = "string" -> Len(v.s) = 0
    [] v.t = "object" -> v.n = 0         \* no own enumerable key
    [] OTHER -> TRUE

\* RegExp.prototype.exec: the leftmost match of R in str, searched from
\* lastIndex when R is global and from 0 otherwise
SearchFrom(R, str, from) ==
  Let([k \in from..Len(str) |-> Ends(R.ast, R.ignoreCase, str, k)],
      LAMBDA es :
        IF \A k \in DOMAIN es : es[k] = <<>>
        THEN [found |-> FALSE, index |-> 0, end |-> 0]
        ELSE Let(CHOOSE k \in DOMAIN es :
                    es[k] # <<>> /\ \A j \in from..(k - 1) : es[j] = <<>>,
                 LAMBDA k : [found |-> TRUE, index |-> k, end |-> Head(es[k])]))

RegExpExec(R, li, str) ==
  Let(SearchFrom(R, str, IF R.global THEN li ELSE 0),
      LAMBDA r : [found |-> r.found, index |-> r.index, end |-> r.end,
                  lastIndex |-> IF ~r.found THEN 0
                                ELSE IF R.global THEN r.end ELSE li])

\* the loop of String.prototype.match for a global pattern: A holds the
\* matches so far; a match that left lastIndex where it was (an empty match)
\* moves lastIndex on by one
RECURSIVE GlobalMatchLoop(_, _, _, _, _)
GlobalMatchLoop(R, str, li, previousLastIndex, A) ==
  Let(RegExpExec(R, li, str),
      LAMBDA r :
        IF ~r.found THEN [matches |-> A, lastIndex |-> r.lastIndex]
        ELSE Let([step |-> IF r.lastIndex = previousLastIndex
                           THEN r.lastIndex + 1 ELSE r.lastIndex,
                  A |-> Append(A, SubSeq(str, r.index + 1, r.end))],
                 LAMBDA n : GlobalMatchLoop(R, str, n.step, n.step, n.A)))

\* a mutant: the pattern is run once from its lastIndex, as regex.exec would
StringMatchAsExec(str, R, li) ==
  Let(RegExpExec(R, li, str),
      LAMBDA r : [matches |-> IF r.found THEN <<SubSeq(str, r.index + 1, r.end)>>
                              ELSE <<>>,
                  lastIndex |-> r.lastIndex])

\* str.match(R) with R.lastIndex = li: the matched substrings (matches[0] is
\* the first match; the empty sequence stands for null) and R.lastIndex after
StringMatch(str, R, li) ==
  IF ~R.global
  THEN Let(RegExpExec(R, li, str),
           LAMBDA r : [matches |-> IF r.found
                                   THEN <<SubSeq(str, r.index + 1, r.end)>>
                                   ELSE <<>>,
                       lastIndex |-> r.lastIndex])
  ELSE GlobalMatchLoop(R, str, 0, 0, <<>>)

\* ------------------------------------------------------------------------
\* The RegExp objects of a run: the two patterns of the constants table and
\* the patterns a caller passes as the matchesRegularExpression argument
\* ------------------------------------------------------------------------
UserPatterns == {"/ab/", "/abc/", "/a|ab/", "/ab|a/", "/a/g", "/b*/g"}
RegExpNames == {"EMAIL_REGEX", "URL_REGEX"} \cup UserPatterns

a_ == <<"cls", {"a"}>>
b_ == <<"cls", {"b"}>>
c_ == <<"cls", {"c"}>>
RegExpTable(name) ==
  CASE name = "EMAIL_REGEX" -> EMAIL_REGEX
    [] name = "URL_REGEX" -> URL_REGEX
    [] name = "/ab/" ->
         [ast |-> <<"cat", <<a_, b_>> >>, global |-> FALSE, ignoreCase |-> FALSE]
    [] name = "/abc/" ->
         [ast |-> <<"cat", <<a_, b_, c_>> >>, global |-> FALSE, ignoreCase |-> FALSE]
    [] name = "/a|ab/" ->
         [ast |-> <<"alt", <<a_, <<"cat", <<a_, b_>> >> >> >>,
          global |-> FALSE, ignoreCase |-> FALSE]
    [] name = "/ab|a/" ->
         [ast |-> <<"alt", << <<"cat", <<a_, b_>> >>, a_>> >>,
          global |-> FALSE, ignoreCase |-> FALSE]
    [] name = "/a/g" -> [ast |-> a_, global |-> TRUE, ignoreCase |-> FALSE]
    [] name = "/b*/g" ->
         [ast |-> <<"rep", b_, 0, -1>>, global |-> TRUE, ignoreCase |-> FALSE]

\* ------------------------------------------------------------------------
\* validators: each predicate yields
\*   [threw, ret, log, lastIndex]
\* threw: the call raised an error (ret is then meaningless); ret: the
\* boolean returned; log: the messages given to Debug.log; lastIndex: the
\* lastIndex of every RegExp object after the call.
\* ------------------------------------------------------------------------
Returns(b, li) ==
  [threw |-> FALSE, ret |-> Bool(b), log |-> <<>>, lastIndex |-> li]
Logs(msg, about, b, li) ==
  [threw |-> FALSE, ret |-> Bool(b), log |-> <<[msg |-> msg, about |-> about]>>,
   lastIndex |-> li]
Throws(li) == [threw |-> TRUE, ret |-> Undefined, log |-> <<>>, lastIndex |-> li]

\* a mutant: typeof tells arrays from other objects, so that an array is
\* left to the typeof 'array' branch
isRequiredArrayTag(input, validationRequired) ==
  IF StrictEquals(validationRequired, Bool(FALSE)) THEN TRUE
  ELSE IF TypeOf(input) = "undefined" \/ StrictEquals(input, Null)
          \/ StrictEquals(input, Str(<<>>)) THEN FALSE
  ELSE IF input.t = "object" /\ IsEmpty(input) THEN FALSE
  ELSE IF TypeOf(input) = "array" /\ input.n = 0 THEN FALSE
  ELSE TRUE

isRequired(input, validationRequired) ==
  IF StrictEquals(validationRequired, Bool(FALSE)) THEN TRUE
  ELSE IF TypeOf(input) = "undefined" \/ StrictEquals(input, Null)
          \/ StrictEquals(input, Str(<<>>)) THEN FALSE
  ELSE IF TypeOf(input) = "object" /\ IsEmpty(input) THEN FALSE
  ELSE IF TypeOf(input) = "array" /\ input.n = 0 THEN FALSE
  ELSE TRUE

\* a mutant: the argument switches the rule off, as it does for isRequired
isNumericOptional(input, arg) ==
  \/ StrictEquals(arg, Bool(FALSE))
  \/ ~ParseFloatIsNaN(input) /\ IsFinite(input)

isNumeric(input, arg) == ~ParseFloatIsNaN(input) /\ IsFinite(input)

hasMinLength(input, min, li) ==
  IF TypeOf(input) # "string"
  THEN Logs("String validator cannot parse a non-string", "hasMinLength", FALSE, li)
  ELSE LET inputLength == Len(input.s)
       IN IF ToBoolean(min) /\ LessThan(inputLength, min)
          THEN Returns(FALSE, li) ELSE Returns(TRUE, li)

hasMaxLength(input, max, li) ==
  IF TypeOf(input) # "string"
  THEN Logs("String validator cannot parse a non-string", "hasMaxLength", FALSE, li)
  ELSE LET inputLength == Len(input.s)
       IN IF ToBoolean(max) /\ GreaterThan(inputLength, max)
          THEN Returns(FALSE, li) ELSE Returns(TRUE, li)

\* a mutant: any match passes, the matched text is not compared with input
matchesAnyMatch(input, name, R, li) ==
  IF input.t # "string" THEN Throws(li)
  ELSE Let(StringMatch(input.s, R, IF name \in DOMAIN li THEN li[name] ELSE 0),
           LAMBDA m :
             IF m.matches # <<>>
             THEN Returns(TRUE, IF name \in DOMAIN li
                                THEN [li EXCEPT ![name] = m.lastIndex] ELSE li)
             ELSE Returns(FALSE, IF name \in DOMAIN li
                                 THEN [li EXCEPT ![name] = m.lastIndex] ELSE li))

\* input.match(R), R the RegExp object called name (or a fresh RegExp made
\* from a string argument, name = "fresh"); only a string has a match method
matchesWith(input, name, R, li) ==
  IF input.t # "string" THEN Throws(li)
  ELSE Let(StringMatch(input.s, R, IF name \in DOMAIN li THEN li[name] ELSE 0),
           LAMBDA m :
             IF m.matches # <<>> /\ m.matches[1] = input.s
             THEN Returns(TRUE, IF name \in DOMAIN li
                                THEN [li EXCEPT ![name] = m.lastIndex] ELSE li)
             ELSE Returns(FALSE, IF name \in DOMAIN li
                                 THEN [li EXCEPT ![name] = m.lastIndex] ELSE li))

matchesRegularExpression(input, regex, li) ==
  IF regex.t = "regexp"
  THEN Let(RegExpTable(regex.s[1]),
           LAMBDA R : matchesWith(input, regex.s[1], R, li))
  ELSE Let(RegExpFromString(ToStringChars(regex)),
           LAMBDA R : matchesWith(input, "fresh", R, li))

isEmail(input, li) == matchesWith(input, "EMAIL_REGEX", EMAIL_REGEX, li)

isUrl(input, li) == matchesWith(input, "URL_REGEX", URL_REGEX, li)

\* Sequencer.$container.find(selector) and .val(): the state of the external
\* field, [found, val].  found = "none": the lookup yields null or undefined;
\* "empty": it yields an empty result set, whose val() is undefined;
\* "field": it yields the field, whose val() is the string val.
confirmEmail(input, selector, field, li) ==
  LET originalEmailField == field[selector.s] IN
  IF originalEmailField.found = "none"
  THEN Logs("Validator: No original email to compare against", "confirmEmail", TRUE, li)
  ELSE LET originalEmail == IF originalEmailField.found = "empty" THEN Undefined
                            ELSE originalEmailField.val
       IN IF StrictEquals(input, originalEmail) THEN Returns(TRUE, li)
          ELSE Returns(FALSE, li)

\* ------------------------------------------------------------------------
\* Validator.validate
\* ------------------------------------------------------------------------
ValidatorNames == {"isRequired", "isNumeric", "hasMinLength", "hasMaxLength",
                   "matchesRegularExpression", "isEmail", "confirmEmail", "isUrl"}
\* validators is an object literal: validators[ruleType] also finds the
\* members it inherits from Object.prototype, which are functions
InheritedNames == {"toString"}

\* thisValidator(input, ruleVal) for thisValidator = validators[ruleType]
CallValidator(ruleType, input, ruleVal, field, li) ==
  CASE ruleType = "isRequired" -> Returns(isRequired(input, ruleVal), li)
    [] ruleType = "isNumeric" -> Returns(isNumeric(input, ruleVal), li)
    [] ruleType = "hasMinLength" -> hasMinLength(input, ruleVal, li)
    [] ruleType = "hasMaxLength" -> hasMaxLength(input, ruleVal, li)
    [] ruleType = "matchesRegularExpression" ->
         matchesRegularExpression(input, ruleVal, li)
    [] ruleType = "isEmail" -> isEmail(input, li)
    [] ruleType = "confirmEmail" -> confirmEmail(input, ruleVal, field, li)
    [] ruleType = "isUrl" -> isUrl(input, li)
    [] ruleType \in InheritedNames ->     \* Object.prototype.toString: a string
         [threw |-> FALSE, ret |-> Str(<<"[", "o", "b", "j", "e", "c", "t", "]">>),
          log |-> <<>>, lastIndex |-> li]
    [] OTHER -> Throws(li)                \* undefined is not a function

\* the callback of _.each for the k-th pair of options, and the pairs after
\* it; an error raised by the callback ends the iteration
RECURSIVE Each(_, _, _, _, _)
Each(input, options, k, field, st) ==
  IF k > Len(options) \/ st.threw THEN st
  ELSE
    Let(CallValidator(options[k].rule, input, options[k].arg, field, st.lastIndex),
        LAMBDA c :
          Let([threw |-> c.threw,
               failures |-> IF ~c.threw /\ StrictEquals(c.ret, Bool(FALSE))
                            THEN Append(st.failures, options[k].rule)
                            ELSE st.failures,
               evaluated |-> Append(st.evaluated,
                                    [rule |-> options[k].rule, threw |-> c.threw,
                                     ret |-> c.ret]),
               log |-> st.log
                       \o (IF options[k].rule \notin ValidatorNames \cup InheritedNames
                           THEN <<[msg |-> "Type not recognized",
                                   about |-> options[k].rule]>>
                           ELSE <<>>)
                       \o c.log,
               lastIndex |-> c.lastIndex],
              LAMBDA after : Each(input, options, k + 1, field, after)))

NoResult == [t |-> "none", b |-> FALSE, list |-> <<>>]
BoolResult(b) == [t |-> "boolean", b |-> b, list |-> <<>>]
ListResult(q) == [t |-> "array", b |-> FALSE, list |-> q]

\* validate(input, options, returnSpecifics) with the external field and the
\* RegExp objects in the given state: what the call leaves behind
validate(input, options, returnSpecifics, field, li) ==
  Let(Each(input, options, 1, field,
           [threw |-> FALSE, failures |-> <<>>, evaluated |-> <<>>,
            log |-> <<>>, lastIndex |-> li]),
      LAMBDA st :
        [threw |-> st.threw,
         result |-> IF st.threw THEN NoResult
                    ELSE IF Len(st.failures) > 0
                         THEN IF StrictEquals(returnSpecifics, Bool(TRUE))
                              THEN ListResult(st.failures) ELSE BoolResult(FALSE)
                         ELSE BoolResult(TRUE),
         failures |-> st.failures,
         evaluated |-> st.evaluated,
         log |-> st.log,
         lastIndex |-> st.lastIndex])

\* ------------------------------------------------------------------------
\* The values a caller passes
\* ------------------------------------------------------------------------
Alphabet == {"a", "b", "4", ".", "@"}
StringsUpTo(k) == UNION {[1..j -> Alphabet] : j \in 0..k}

SampleStrings ==
  { <<"a","b","c">>, <<"a","b","c","d">>, <<"4","2">>, <<" ","4","2"," ">>,
    <<"4",".","5">>, <<"1","e","5">>, <<"0","x","1","f">>,
    <<"I","n","f","i","n","i","t","y">>,
    <<"a","@","b",".","c","o">>, <<"A","@","B",".","C","O">>,
    <<"a","@","b",".","c","o","m","a","b","c">>,
    <<"n","o","t","-","a","n","-","e","m","a","i","l">>,
    <<"a",".","c","o">>, <<"a",".","c","o","/","b","#","4">>,
    <<"a","b",".","c","o"," ","b",".","c","o">> }

NonStrings ==
  { Undefined, Null, Bool(TRUE), Bool(FALSE), Num(0), Num(42), NaN, Infinity,
    Obj(0), Obj(1), Arr(<<>>, 0), Arr(<<"1">>, 1), Arr(<<"a", ",", "b">>, 2) }

Inputs == {Str(cs) : cs \in StringsUpTo(MaxLen) \cup SampleStrings} \cup NonStrings

Selector == Str(<<"#", "e">>)
FieldStates ==
  { [found |-> "none", val |-> Undefined],
    [found |-> "empty", val |-> Undefined],
    [found |-> "field", val |-> Str(<<"a","@","b",".","c","o">>)] }
Containers == [{Selector.s} -> FieldStates]

Pair(rule, arg) == [rule |-> rule, arg |-> arg]
\* argument values for the rules whose predicate takes the input alone
PresenceArgs == {Bool(TRUE), Bool(FALSE), Undefined}
LengthArgs == {Num(k) : k \in 0..MaxBound} \cup {Num(5)}
PatternArgs == {RegExpObj(name) : name \in UserPatterns}
                 \cup {Str(<<>>), Str(<<"a", "b">>), Str(<<"a", ".">>)}
\* the keys the header comment lists that the registry does not hold, and
\* a key that only Object.prototype holds
UnknownPairs == { Pair("matchesWhiteList", Arr(<<>>, 0)),
                  Pair("customFunction", Null) }
InheritedPairs == { Pair("toString", Bool(TRUE)) }

Pairs ==
  {Pair("isRequired", a) : a \in {Bool(TRUE), Bool(FALSE)}}
    \cup {Pair(r, a) : r \in {"isNumeric", "isEmail", "isUrl"}, a \in PresenceArgs}
    \cup {Pair(r, a) : r \in {"hasMinLength", "hasMaxLength"}, a \in LengthArgs}
    \cup {Pair("matchesRegularExpression", a) : a \in PatternArgs}
    \cup {Pair("confirmEmail", Selector)}
    \cup UnknownPairs \cup InheritedPairs

\* options of one rule, for the runs about one predicate
RuleOptions == {<<q>> : q \in Pairs}

\* options of several rules, for the runs about the aggregator
AggPairs ==
  { Pair("isRequired", Bool(TRUE)), Pair("isNumeric", Bool(TRUE)),
    Pair("hasMinLength", Num(5)), Pair("hasMaxLength", Num(MaxBound)),
    Pair("matchesRegularExpression", RegExpObj("/ab/")),
    Pair("isEmail", Bool(TRUE)), Pair("confirmEmail", Selector),
    Pair("matchesWhiteList", Arr(<<>>, 0)) } \cup InheritedPairs
AggInputs ==
  { Undefined, Null, Str(<<>>), Str(<<"4","2">>), Str(<<"a","b">>),
    Str(<<"a","@","b",".","c","o">>), Num(42), Arr(<<>>, 0) }
\* a mapping has each key once
DistinctKeys(q) == \A i, j \in 1..Len(q) : q[i].rule = q[j].rule => i = j
AggOptions ==
  {q \in UNION {[1..j -> AggPairs] : j \in 0..MaxRules} : DistinctKeys(q)}

ReturnSpecifics == {Bool(TRUE), Bool(FALSE), Undefined}

\* the calls of the runs that call validate again and again
SeqInputs == { Str(<<"a">>), Str(<<"a","b">>), Str(<<"a",".","c","o">>),
               Str(<<"a","@","b",".","c","o">>), Num(42) }
SeqOptions ==
  { <<Pair("isUrl", Bool(TRUE))>>, <<Pair("isEmail", Bool(TRUE))>>,
    <<Pair("matchesRegularExpression", RegExpObj("/a/g"))>>,
    <<Pair("matchesRegularExpression", RegExpObj("/b*/g"))>>,
    <<Pair("matchesRegularExpression", RegExpObj("/ab|a/"))>>,
    <<Pair("hasMinLength", Num(MaxBound)), Pair("isUrl", Bool(FALSE))>>,
    <<Pair("confirmEmail", Selector), Pair("isRequired", Bool(TRUE))>>,
    <<Pair("customFunction", Null)>> }

\* ------------------------------------------------------------------------
\* State
\* ------------------------------------------------------------------------
VARIABLES
  input,            \* the arguments of the current call of validate
  options,
  returnSpecifics,
  container,        \* Sequencer.$container: the external field, by selector
  lastIndex,        \* the lastIndex property of every RegExp object
  pc,               \* "ready": called; "returned"; "threw": left by an error
  result,           \* the value returned
  failures,         \* the local failures array when the call ended
  evaluated,        \* the predicates called, in order, with what each gave
  log,              \* the messages the call gave to Debug.log
  probe             \* an earlier call and its outcome, kept for comparison

vars == <<input, options, returnSpecifics, container, lastIndex, pc, result,
          failures, evaluated, log, probe>>

NoProbe == [set |-> FALSE, input |-> Undefined, options |-> <<>>,
            returnSpecifics |-> Undefined, threw |-> FALSE, result |-> NoResult]

\* module load: every RegExp object is fresh (lastIndex 0), no call made yet
Loaded ==
  /\ lastIndex = [name \in RegExpNames |-> 0]
  /\ pc = "ready"
  /\ result = NoResult
  /\ failures = <<>>
  /\ evaluated = <<>>
  /\ log = <<>>
  /\ probe = NoProbe

Init ==
  /\ \/ input \in Inputs /\ options \in RuleOptions
     \/ input \in AggInputs /\ options \in AggOptions
  /\ returnSpecifics \in ReturnSpecifics
  /\ container \in Containers
  /\ Loaded

InitSeq ==
  /\ input \in SeqInputs
  /\ options \in SeqOptions
  /\ returnSpecifics \in {Bool(TRUE), Bool(FALSE)}
  /\ container \in Containers
  /\ Loaded

\* the call runs to its end
Validate ==
  /\ pc = "ready"
  /\ \E r \in {validate(input, options, returnSpecifics, container, lastIndex)} :
        /\ pc' = IF r.threw THEN "threw" ELSE "returned"
        /\ result' = r.result
        /\ failures' = r.failures
        /\ evaluated' = r.evaluated
        /\ log' = r.log
        /\ lastIndex' = r.lastIndex
  /\ UNCHANGED <<input, options, returnSpecifics, container, probe>>

\* the caller makes its next call; it may keep the call just ended to
\* compare later calls with
Prepare ==
  /\ pc # "ready"
  /\ input' \in SeqInputs
  /\ options' \in SeqOptions
  /\ returnSpecifics' \in {Bool(TRUE), Bool(FALSE)}
  /\ pc' = "ready"
  /\ result' = NoResult
  /\ failures' = <<>>
  /\ evaluated' = <<>>
  /\ log' = <<>>
  /\ \/ probe' = probe
     \/ /\ ~probe.set
        /\ probe' = [set |-> TRUE, input |-> input, options |-> options,
                     returnSpecifics |-> returnSpecifics,
                     threw |-> (pc = "threw"), result |-> result]
  /\ UNCHANGED <<container, lastIndex>>

Next == Validate

Spec == Init /\ [][Next]_vars

NextSeq == Validate \/ Prepare

SpecSeq == InitSeq /\ [][NextSeq]_vars

\* ------------------------------------------------------------------------
\* Properties
\* ------------------------------------------------------------------------
Done == pc # "ready"
Fresh == [name \in RegExpNames |-> 0]
Logged(about) == \E m \in 1..Len(log) : log[m].about = about
InFailures(rule) == \E j \in 1..Len(failures) : failures[j] = rule
Evaluated(rule) == \E j \in 1..Len(evaluated) : evaluated[j].rule = rule
AllKnown == \A i \in 1..Len(options) : options[i].rule \in ValidatorNames

\* C1: a rule name of options that the registry does not hold is logged and
\* skipped: the call does not throw, the name is not among the failures, and
\* every other rule of options is still evaluated.
C1_UnknownRuleSkipped ==
  Done =>
    \A i \in 1..Len(options) :
      options[i].rule \notin ValidatorNames =>
        /\ pc = "returned"
        /\ Logged(options[i].rule)
        /\ ~InFailures(options[i].rule)
        /\ \A j \in 1..Len(options) :
             options[j].rule \in ValidatorNames => Evaluated(options[j].rule)

\* C2: for every input and options, validate returns true when no rule
\* failed; when a rule failed it returns the failures if returnSpecifics is
\* true and false otherwise.
C2_ResultByFailures ==
  Done =>
    result = IF failures = <<>> THEN BoolResult(TRUE)
             ELSE IF returnSpecifics = Bool(TRUE) THEN ListResult(failures)
             ELSE BoolResult(FALSE)

\* the rules of options whose predicate, called alone on (input, argument),
\* returns false, in the order of options
SaysFalse(i) ==
  Let(CallValidator(options[i].rule, input, options[i].arg, container, Fresh),
      LAMBDA c : ~c.threw /\ c.ret = Bool(FALSE))
ExpectedFailures ==
  SelectSeq([i \in 1..Len(options) |-> IF SaysFalse(i) THEN options[i].rule ELSE ""],
            LAMBDA r : r # "")

\* C3: with options of known rules, every rule is evaluated, also after an
\* earlier one failed, and the failures are exactly the rules whose
\* predicate returned false, in the order of options, each once.
C3_NoShortCircuit ==
  (Done /\ AllKnown) =>
    /\ Len(evaluated) = Len(options)
    /\ \A i \in 1..Len(options) : evaluated[i].rule = options[i].rule
    /\ failures = ExpectedFailures
    /\ (returnSpecifics = Bool(TRUE) /\ ExpectedFailures # <<>>)
         => result = ListResult(ExpectedFailures)

\* C4: with options of known rules and well-formed arguments, validate does
\* not throw whatever the type of input: it returns a boolean or a sequence
\* of rule names.
C4_NeverThrows ==
  (Done /\ AllKnown) => (pc = "returned" /\ result.t \in {"boolean", "array"})

\* what C5 says isRequired returns
RequiredExpected(v, validationRequired) ==
  IF validationRequired = Bool(FALSE) THEN TRUE
  ELSE ~ \/ v \in {Undefined, Null, Str(<<>>)}
         \/ v.t \in {"object", "array"} /\ v.n = 0

\* C5: isRequired(input, false) is true; isRequired(input, true) is false
\* exactly for undefined, null, the empty string, an empty mapping and an
\* empty sequence.
C5_IsRequired ==
  \A i \in 1..Len(evaluated) :
    evaluated[i].rule = "isRequired" =>
      /\ ~evaluated[i].threw
      /\ evaluated[i].ret = Bool(RequiredExpected(input, options[i].arg))

C5_Witness ==
  /\ Done
  /\ options = <<Pair("isRequired", Bool(TRUE))>>
  /\ input = Arr(<<>>, 0)
  /\ evaluated = <<[rule |-> "isRequired", threw |-> FALSE, ret |-> Bool(FALSE)]>>

\* C6: both length rules return false, with a diagnostic, for an input that
\* is not a string; for a string s and a bound n >= 0, hasMinLength returns
\* false exactly when length(s) < n and hasMaxLength exactly when
\* length(s) > n.
C6_LengthRules ==
  \A i \in 1..Len(evaluated) :
    evaluated[i].rule \in {"hasMinLength", "hasMaxLength"} =>
      /\ ~evaluated[i].threw
      /\ IF input.t # "string"
         THEN evaluated[i].ret = Bool(FALSE) /\ Logged(evaluated[i].rule)
         ELSE evaluated[i].ret =
                Bool(IF evaluated[i].rule = "hasMinLength"
                     THEN ~(Len(input.s) < options[i].arg.n)
                     ELSE ~(Len(input.s) > options[i].arg.n))

\* the RegExp of a matchesRegularExpression argument
PatternOf(arg) ==
  IF arg.t = "regexp" THEN RegExpTable(arg.s[1])
  ELSE RegExpFromString(ToStringChars(arg))
\* the pattern has a match in str and its first match is the whole of str
FirstMatchIsWhole(R, str) ==
  Let(SearchFrom(R, str, 0),
      LAMBDA r : r.found /\ r.index = 0 /\ r.end = Len(str))
\* the pattern has a match in str that is not the whole of str
PartialMatch(R, str) ==
  Let(SearchFrom(R, str, 0),
      LAMBDA r : r.found /\ (r.index # 0 \/ r.end # Len(str)))

\* C7: for a string input, matchesRegularExpression returns true exactly
\* when the pattern has a match in input and the first match is the whole
\* input; isEmail and isUrl give the result of that check for the fixed
\* email and URL patterns.
C7_WholeMatch ==
  \A i \in 1..Len(evaluated) :
    (input.t = "string"
       /\ evaluated[i].rule \in {"matchesRegularExpression", "isEmail", "isUrl"}) =>
      /\ ~evaluated[i].threw
      /\ evaluated[i].ret =
           Bool(FirstMatchIsWhole(
                  CASE evaluated[i].rule = "isEmail" -> EMAIL_REGEX
                    [] evaluated[i].rule = "isUrl" -> URL_REGEX
                    [] OTHER -> PatternOf(options[i].arg),
                  input.s))

C7_Witness ==
  /\ Done
  /\ input = Str(<<"a", "b", "c", "d">>)
  /\ options = <<Pair("matchesRegularExpression", RegExpObj("/abc/"))>>
  /\ PartialMatch(RegExpTable("/abc/"), input.s)
  /\ evaluated[1].ret = Bool(FALSE)

\* C8: when the lookup finds no field for the selector, whatever it returns
\* for that (an empty result set too), confirmEmail returns true without
\* throwing; when the field is found it returns true exactly when input
\* equals the field's value.  (The claim adds that the first case logs a
\* warning; this is its part about the value returned.)
C8_ConfirmEmailFailsOpen ==
  \A i \in 1..Len(evaluated) :
    evaluated[i].rule = "confirmEmail" =>
      /\ ~evaluated[i].threw
      /\ IF container[options[i].arg.s].found # "field"
         THEN evaluated[i].ret = Bool(TRUE)
         ELSE evaluated[i].ret = Bool(input = container[options[i].arg.s].val)

\* the call that ended is the call kept in probe, made again
SameCallAsProbe ==
  /\ Done
  /\ probe.set
  /\ probe.input = input
  /\ probe.options = options
  /\ probe.returnSpecifics = returnSpecifics

\* C9: a call gives what the same call gave before, whatever calls were made
\* in between, and no call changes a RegExp object of the constants table
\* or of options (lastIndex is the only part of them a call could write).
C9_NoHiddenState ==
  /\ lastIndex = Fresh
  /\ SameCallAsProbe =>
       (probe.threw = (pc = "threw") /\ probe.result = result)

C9_Witness ==
  /\ SameCallAsProbe
  /\ options = <<Pair("isUrl", Bool(TRUE))>>
  /\ input = Str(<<"a", ".", "c", "o">>)
  /\ result = BoolResult(TRUE)

\* the outcome of validate(input, {rule: arg}, returnSpecifics)
OutcomeWith(rule, arg) ==
  Let(validate(input, <<Pair(rule, arg)>>, returnSpecifics, container, Fresh),
      LAMBDA r : <<r.threw, r.result>>)

\* C10: for isNumeric, isEmail and isUrl the argument is ignored:
\* validate(input, {rule: a}, r) is validate(input, {rule: b}, r) for all
\* argument values a and b, false among them.
C10_ArgumentIgnored ==
  (Done /\ Len(options) = 1 /\ options[1].rule \in {"isNumeric", "isEmail", "isUrl"}) =>
    \A b \in PresenceArgs :
      OutcomeWith(options[1].rule, b) = <<pc = "threw", result>>

C10_Witness ==
  /\ Done
  /\ input = Str(<<"a", "b">>)
  /\ options = <<Pair("isEmail", Bool(FALSE))>>
  /\ returnSpecifics = Bool(TRUE)
  /\ result = ListResult(<<"isEmail">>)

====
